---- MODULE Spec2Model ----
(***************************************************************************)
(* Model of initx (src/src/main.rs): the `$name` substitution pass         *)
(* apply_template, the lazily loaded template registry TEMPLATES, and the  *)
(* arms of main: install, list, create and defaults.                       *)
(*                                                                         *)
(* Strings that the code inspects character by character are sequences of  *)
(* characters; a character is a one-element string, and a character        *)
(* outside ASCII is written by its code point ("U+00E9").                  *)
(***************************************************************************)
EXTENDS Integers, Sequences, FiniteSets, TLC

VARIABLES
    \* apply_template called on its own (SpecSubst)
    s,            \* the text handed to apply_template
    svars,        \* the mapping handed to apply_template
    out,          \* the returned string
    spc,          \* "call" before the call, "returned" after, "idle" when unused
    \* main (Spec)
    pc,           \* position in main
    command,      \* args.command: "none", "list", "create" or "defaults"
    query,        \* args.template, an Option
    force,        \* args.force
    argName,      \* args.name, an Option
    storeExists,  \* whether template_dir() exists on disk
    storage,      \* the subdirectories of template_dir(), in read_dir order
    lock,         \* the LazyLock: "unforced", "forced" or "poisoned"
    TEMPLATES,    \* the LazyLock's value once forced
    t,            \* the lowercased query
    template,     \* index into TEMPLATES of the template found, 0 for None
    vars,         \* the BTreeMap built by main
    dest0,        \* the current directory's entries when the program starts
    dest,         \* the current directory's entries
    fsOps,        \* the calls that wrote to the current directory, in order
    visited,      \* template tree entries WalkDir has yielded
    last,         \* the entry WalkDir yielded last
    cmdIdx,       \* index of the command the loop is at
    children,     \* spawned child processes that have not exited
    started,      \* every spawn that succeeded, in order
    exits,        \* exit status of every child waited for, in order
    printed,      \* lines written to stdout
    outcome       \* how the process ended

allVars == <<s, svars, out, spc, pc, command, query, force, argName, storeExists,
             storage, lock, TEMPLATES, t, template, vars, dest0, dest, fsOps, visited,
             last, cmdIdx, children, started, exits, printed, outcome>>

substVars == <<s, svars, out, spc>>
mainVars == <<pc, command, query, force, argName, storeExists, storage, lock, TEMPLATES,
              t, template, vars, dest0, dest, fsOps, visited, last, cmdIdx,
              children, started, exits, printed, outcome>>

----------------------------------------------------------------------------
(* Bounds *)

BoundedSeq(S, n) == UNION {[1..k -> S] : k \in 0..n}

\* longest text handed to apply_template in SpecSubst
MaxLen == 4
\* most subdirectories in the template directory
MaxDirs == 2

----------------------------------------------------------------------------
(* Characters *)

AsciiLower == {"a","b","c","d","e","f","g","h","i","j","k","l","m",
               "n","o","p","q","r","s","t","u","v","w","x","y","z"}
AsciiUpper == {"A","B","C","D","E","F","G","H","I","J","K","L","M",
               "N","O","P","Q","R","S","T","U","V","W","X","Y","Z"}
AsciiDigit == {"0","1","2","3","4","5","6","7","8","9"}
\* letters outside ASCII: e-acute, E-acute, hiragana NO
UnicodeLetter == {"U+00E9", "U+00C9", "U+306E"}

Uppers == <<"A","B","C","D","E","F","G","H","I","J","K","L","M",
            "N","O","P","Q","R","S","T","U","V","W","X","Y","Z","U+00C9">>
Lowers == <<"a","b","c","d","e","f","g","h","i","j","k","l","m",
            "n","o","p","q","r","s","t","u","v","w","x","y","z","U+00E9">>

\* char::is_alphanumeric: Unicode Alphabetic or Numeric, not only ASCII
is_alphanumeric(c) == c \in AsciiLower \cup AsciiUpper \cup AsciiDigit \cup UnicodeLetter

\* the test of the inner loop: nc.is_alphanumeric() || nc == '_'
IsNameChar(nc) == is_alphanumeric(nc) \/ nc = "_"

\* char-wise lowercase mapping of str::to_lowercase
LowerChar(c) ==
    IF \E i \in DOMAIN Uppers : Uppers[i] = c
    THEN Lowers[CHOOSE i \in DOMAIN Uppers : Uppers[i] = c]
    ELSE c

to_lowercase(str) == [i \in DOMAIN str |-> LowerChar(str[i])]

\* str::starts_with
starts_with(str, prefix) ==
    /\ Len(str) >= Len(prefix)
    /\ SubSeq(str, 1, Len(prefix)) = prefix

----------------------------------------------------------------------------
(* apply_template *)

\* the inner while loop: index of the first character after the run that starts at j
RECURSIVE RunEnd(_, _)
RunEnd(contents, j) ==
    IF j <= Len(contents) /\ IsNameChar(contents[j])
    THEN RunEnd(contents, j + 1)
    ELSE j

\* mutant: the value of a known variable is itself put back with its `$`
EmitKeepsDollar(name, vs) ==
    IF name # <<>> THEN <<"$">> \o name ELSE <<"$">>

\* mutant: a `$` with no name after it is dropped
EmitDropsSolitary(name, vs) ==
    IF name # <<>>
    THEN IF name \in DOMAIN vs THEN vs[name] ELSE <<"$">> \o name
    ELSE <<>>

\* what is pushed to `out` once the name after a `$` has been read
Emit(name, vs) ==
    IF name # <<>>
    THEN IF name \in DOMAIN vs THEN vs[name] ELSE <<"$">> \o name
    ELSE <<"$">>

\* the outer while loop from character i on, `acc` being `out` so far
RECURSIVE Scan(_, _, _, _)
Scan(contents, vs, i, acc) ==
    IF i > Len(contents) THEN acc
    ELSE IF contents[i] = "$"
         THEN LET j == RunEnd(contents, i + 1)
                  name == SubSeq(contents, i + 1, j - 1)
              IN  Scan(contents, vs, j, acc \o Emit(name, vs))
         ELSE Scan(contents, vs, i + 1, Append(acc, contents[i]))

apply_template(contents, vs) == Scan(contents, vs, 1, <<>>)

----------------------------------------------------------------------------
(* Files, directories and paths *)

\* A path is a sequence of file names, relative to the root it lives under;
\* a directory tree or the current directory is a function from paths to nodes.
DirNode == [kind |-> "dir", utf8 |-> FALSE, data |-> <<>>]
TextFile(chars) == [kind |-> "file", utf8 |-> TRUE, data |-> chars]
BinFile(bytes) == [kind |-> "file", utf8 |-> FALSE, data |-> bytes]

Parent(p) == SubSeq(p, 1, Len(p) - 1)
Prefixes(p) == {SubSeq(p, 1, k) : k \in 1..Len(p)}

\* fs::create_dir_all(cwd.join(p)): an error, and nothing created, when a
\* component of p exists and is not a directory
create_dir_all(d, p) ==
    IF \E q \in Prefixes(p) : q \in DOMAIN d /\ d[q].kind # "dir"
    THEN [ok |-> FALSE, fs |-> d]
    ELSE [ok |-> TRUE,
          fs |-> [q \in DOMAIN d \cup Prefixes(p) |->
                     IF q \in DOMAIN d THEN d[q] ELSE DirNode]]

\* fs::write(cwd.join(p), data) and fs::copy(_, cwd.join(p)): create or
\* truncate the file; an error when p is a directory
write(d, p, node) ==
    IF p \in DOMAIN d /\ d[p].kind = "dir"
    THEN [ok |-> FALSE, fs |-> d]
    ELSE [ok |-> TRUE,
          fs |-> [q \in DOMAIN d \cup {p} |-> IF q = p THEN node ELSE d[q]]]

----------------------------------------------------------------------------
(* The template registry *)

MetaPrefix == <<".","m","e","t","a">>
MetaToml == <<".","m","e","t","a",".","t","o","m","l">>

\* struct Template; `path` is the subdirectory the metadata was read from
Template(name, description, alias, commands, ignore, path) ==
    [name |-> name, description |-> description, alias |-> alias,
     commands |-> commands, ignore |-> ignore, path |-> path]

NoTemplate == Template(<<>>, "", <<>>, <<>>, <<>>, <<>>)

\* the closure of filter_map on one subdirectory `e` of the template directory:
\* e.meta tells what .meta.toml holds
\*   "missing"    fs::read fails (no file, or unreadable)        -> None
\*   "garbage"    toml::from_slice fails                         -> None
\*   "no_table"   the document has no `template` key             -> None
\*   "bad_table"  `template` does not deserialize into Template  -> unwrap panics
\*   "valid"                                                     -> Some(Template)
ParseEntry(e) ==
    IF e.meta \in {"missing", "garbage", "no_table"} THEN [res |-> "none", tpl |-> NoTemplate]
    ELSE IF e.meta = "bad_table" THEN [res |-> "panic", tpl |-> NoTemplate]
    ELSE [res |-> "some",
          tpl |-> Template(e.tpl.name, e.tpl.description, e.tpl.alias,
                           e.tpl.commands, e.tpl.ignore, e.dir)]

\* read_dir(..).filter_map(..).collect() from entry i on
RECURSIVE Collect(_, _, _)
Collect(disk, i, acc) ==
    IF i > Len(disk) THEN [panic |-> FALSE, list |-> acc]
    ELSE LET r == ParseEntry(disk[i])
         IN  IF r.res = "panic" THEN [panic |-> TRUE, list |-> <<>>]
             ELSE IF r.res = "none" THEN Collect(disk, i + 1, acc)
             ELSE Collect(disk, i + 1, Append(acc, r.tpl))

\* the closure of .find(): alias.contains(&t) || name.to_lowercase() == t
Matches(tpl, q) ==
    \/ \E k \in DOMAIN tpl.alias : tpl.alias[k] = q
    \/ to_lowercase(tpl.name) = q

\* mutant: the last matching template instead of the first
findLast(list, q) ==
    IF \E i \in DOMAIN list : Matches(list[i], q)
    THEN CHOOSE i \in DOMAIN list :
            /\ Matches(list[i], q)
            /\ \A j \in DOMAIN list : Matches(list[j], q) => j <= i
    ELSE 0

\* Iterator::find: the first matching template, 0 for None
find(list, q) ==
    IF \E i \in DOMAIN list : Matches(list[i], q)
    THEN CHOOSE i \in DOMAIN list :
            /\ Matches(list[i], q)
            /\ \A j \in DOMAIN list : Matches(list[j], q) => i <= j
    ELSE 0

----------------------------------------------------------------------------
(* The walk over the template tree *)

max_depth == 10

\* what WalkDir yields of a tree: every entry down to max_depth
Yieldable(tree) == {p \in DOMAIN tree : Len(p) <= max_depth}

ChildrenOf(tree, q) ==
    {p \in Yieldable(tree) : Len(p) = Len(q) + 1 /\ SubSeq(p, 1, Len(q)) = q}

\* WalkDir is depth first: after `lst`, the next entry is a child not yet
\* yielded of the deepest directory on the way to `lst` that still has one;
\* the order among the children of one directory is the file system's
NextEntries(tree, vis, lst) ==
    IF vis = {} THEN {<<>>}
    ELSE LET open == {q \in Prefixes(lst) \cup {<<>>} : ChildrenOf(tree, q) \ vis # {}}
         IN  IF open = {} THEN {}
             ELSE LET q == CHOOSE q \in open : \A r \in open : Len(r) <= Len(q)
                  IN  ChildrenOf(tree, q) \ vis

\* mutant: the walk counts as over once the root has been yielded
WalkDoneEarly(tree, vis) == vis # {}

\* the iterator is exhausted
WalkDone(tree, vis) == vis = Yieldable(tree)

\* f.file_name(): the last component; for the root, the template directory's name
file_name(root, p) == IF p = <<>> THEN root ELSE p[Len(p)]

\* the .filter(): entries whose name starts with ".meta" are dropped
Kept(root, p) == ~starts_with(file_name(root, p), MetaPrefix)

\* the closure of for_each on entry p: [ok, fs, ops, msg]
Materialize(d, tree, p, vs) ==
    IF tree[p].kind = "dir"
    THEN LET r == create_dir_all(d, p)
         IN  [ok |-> r.ok, fs |-> r.fs,
              ops |-> <<[op |-> "create_dir_all", path |-> p]>>,
              msg |-> "Failed to create directory"]
    ELSE LET r == create_dir_all(d, Parent(p))
             mk == [op |-> "create_dir_all", path |-> Parent(p)]
         IN  IF ~r.ok
             THEN [ok |-> FALSE, fs |-> r.fs, ops |-> <<mk>>,
                   msg |-> "Failed to create parent directory"]
             ELSE IF tree[p].utf8
             THEN LET w == write(r.fs, p, TextFile(apply_template(tree[p].data, vs)))
                  IN  [ok |-> w.ok, fs |-> w.fs,
                       ops |-> <<mk, [op |-> "write", path |-> p]>>,
                       msg |-> "Failed to write file"]
             ELSE LET w == write(r.fs, p, tree[p])
                  IN  [ok |-> w.ok, fs |-> w.fs,
                       ops |-> <<mk, [op |-> "copy", path |-> p]>>,
                       msg |-> "Failed to copy file"]

\* str::split(" "): every single space separates, so two spaces in a row or a
\* leading space give an empty token
RECURSIVE SplitFrom(_, _, _, _)
SplitFrom(str, i, cur, acc) ==
    IF i > Len(str) THEN Append(acc, cur)
    ELSE IF str[i] = " " THEN SplitFrom(str, i + 1, <<>>, Append(acc, cur))
    ELSE SplitFrom(str, i + 1, Append(cur, str[i]), acc)

split(str) == SplitFrom(str, 1, <<>>, <<>>)

\* mutant: the dirty check is skipped
IsDirtyNever(f, d) == FALSE

\* !args.force && read_dir(current_dir()).next().is_some()
IsDirty(f, d) == ~f /\ DOMAIN d # {}

----------------------------------------------------------------------------
(* Inputs of main *)

Greeting == <<"g","r","e","e","t","i","n","g",".","t","x","t">>
Src == <<"s","r","c">>
Logo == <<"l","o","g","o">>
Where == <<"w","h","e","r","e">>
MetaData == <<".","m","e","t","a","d","a","t","a">>
Notes == <<"n","o","t","e","s">>

KeyLocation == <<"l","o","c","a","t","i","o","n">>
KeyName == <<"n","a","m","e">>
\* current_dir().display().to_string()
Cwd == <<"/","p">>
ProjectNames == {<<"W","o","r","l","d">>}

\* a payload with a text file, a subdirectory and a file that is not UTF-8
TreeRust ==
    (<<>> :> DirNode) @@ (<<MetaToml>> :> TextFile(<<"[","t","]">>))
    @@ (<<Greeting>> :> TextFile(<<"H","e","l","l","o",","," ","$","n","a","m","e","!">>))
    @@ (<<Src>> :> DirNode) @@ (<<Src, Logo>> :> BinFile(<<"0xFF">>))

TreeWhere ==
    (<<>> :> DirNode) @@ (<<MetaToml>> :> TextFile(<<"[","t","]">>))
    @@ (<<Where>> :> TextFile(<<"$","l","o","c","a","t","i","o","n">>))

\* a payload with a directory whose name starts with ".meta"
TreeMetaDir ==
    (<<>> :> DirNode) @@ (<<MetaToml>> :> TextFile(<<"[","t","]">>))
    @@ (<<MetaData>> :> DirNode) @@ (<<MetaData, Notes>> :> TextFile(<<"n">>))

TreeOnlyMeta == (<<>> :> DirNode) @@ (<<MetaToml>> :> TextFile(<<"?">>))
TreeBare == (<<>> :> DirNode)

OwnTxt == <<"o","w","n",".","t","x","t">>
Envrc == <<".","e","n","v","r","c">>
DevenvNix == <<"d","e","v","e","n","v",".","n","i","x">>

\* a user's template in a directory named rust, with a file of its own
TreeMine ==
    (<<>> :> DirNode) @@ (<<MetaToml>> :> TextFile(<<"[","m","]">>))
    @@ (<<OwnTxt>> :> TextFile(<<"o">>))

\* a directory named rust in which src is a file
TreeSrcFile == (<<>> :> DirNode) @@ (<<Src>> :> TextFile(<<>>))

\* subdirectories of the template directory: `meta` and `tpl` tell what the
\* .meta.toml of `tree` holds (see ParseEntry)
DirRust ==
    [dir |-> <<"r","u","s","t">>, meta |-> "valid", tree |-> TreeRust,
     tpl |-> Template(<<"R","u","s","t">>, "Rust project", << <<"r","s">> >>,
                      << <<"g","i","t"," ","i","n","i","t">>,
                         <<"e","c","h","o"," ","$","n","a","m","e">> >>,
                      <<>>, <<>>)]
\* declares the name that DirRust declares
DirRust2 ==
    [dir |-> <<"r","u","s","t","2">>, meta |-> "valid", tree |-> TreeWhere,
     tpl |-> Template(<<"R","u","s","t">>, "Another Rust project", <<>>, <<>>, <<>>, <<>>)]
\* has an alias with upper-case letters
DirGo ==
    [dir |-> <<"g","o">>, meta |-> "valid", tree |-> TreeMetaDir,
     tpl |-> Template(<<"g","o">>, "Go project", << <<"G","L">> >>,
                      << <<"g","o"," "," ","m","o","d">> >>, <<>>, <<>>)]
DirMine ==
    [dir |-> <<"r","u","s","t">>, meta |-> "valid", tree |-> TreeMine,
     tpl |-> Template(<<"M","i","n","e">>, "My project", <<>>, <<>>, <<>>, <<>>)]
DirSrcFile ==
    [dir |-> <<"r","u","s","t">>, meta |-> "missing", tree |-> TreeSrcFile, tpl |-> NoTemplate]
DirMissing ==
    [dir |-> <<"d","1">>, meta |-> "missing", tree |-> TreeBare, tpl |-> NoTemplate]
DirGarbage ==
    [dir |-> <<"d","2">>, meta |-> "garbage", tree |-> TreeOnlyMeta, tpl |-> NoTemplate]
DirNoTable ==
    [dir |-> <<"d","3">>, meta |-> "no_table", tree |-> TreeOnlyMeta, tpl |-> NoTemplate]
DirBadTable ==
    [dir |-> <<"d","4">>, meta |-> "bad_table", tree |-> TreeOnlyMeta, tpl |-> NoTemplate]

Entries == {DirRust, DirRust2, DirGo, DirMine, DirSrcFile,
            DirMissing, DirGarbage, DirNoTable, DirBadTable}

\* the subdirectories in the order read_dir returns them; names are unique
Storages ==
    {st \in BoundedSeq(Entries, MaxDirs) :
        \A i, j \in DOMAIN st : i # j => st[i].dir # st[j].dir}

\* the directories embedded by include_dir!("templates")
DEFAULT_TEMPLATES == <<DirRust>>

\* the embedded entries in the order delve pushes them: a directory, then
\* what it holds
DefaultEntries ==
    << [dir |-> DirRust.dir, path |-> <<>>],
       [dir |-> DirRust.dir, path |-> <<MetaToml>>],
       [dir |-> DirRust.dir, path |-> <<Greeting>>],
       [dir |-> DirRust.dir, path |-> <<Src>>],
       [dir |-> DirRust.dir, path |-> <<Src, Logo>>] >>

\* Option: None is <<>>, Some(v) is <<v>>
None == <<>>
Some(v) == <<v>>

Queries == {<<"R","U","S","T">>, <<"r","s">>, <<"G","L">>, <<"g","o">>, <<"z","z">>}

\* what the user may type at the `Project Name` prompt
PromptInputs == {<<"G","o">>, <<"W","o","r","l","d">>, <<" ">>}

\* the current directory: empty; holding a file named src; holding a directory
\* named greeting.txt
DestPool == {<<>>, (<<Src>> :> TextFile(<<>>)), (<<Greeting>> :> DirNode)}

\* position of the subdirectory named dir
IndexOf(st, dir) == CHOOSE i \in DOMAIN st : st[i].dir = dir
Has(st, dir) == \E i \in DOMAIN st : st[i].dir = dir

\* the tree under a template's path
TreeAt(path) == storage[IndexOf(storage, path)].tree

\* a line on stdout
Line(text, arg) == [text |-> text, arg |-> arg]

\* the validator of the prompt: input.trim().is_empty() is refused
IsBlank(input) == \A i \in DOMAIN input : input[i] = " "
PromptAnswers == {n \in PromptInputs : ~IsBlank(n)}

----------------------------------------------------------------------------
(* create_defaults *)

InsertAt(st, k, e) == SubSeq(st, 1, k - 1) \o <<e>> \o SubSeq(st, k, Len(st))
RemoveDir(st, dir) == SelectSeq(st, LAMBDA e : e.dir # dir)

NewDir(dir) == [dir |-> dir, meta |-> "missing", tree |-> TreeBare, tpl |-> NoTemplate]

\* the loop `for entry in entries` from entry i on; a subdirectory that is
\* new takes place k of the read order; [ok, st, lines, msg]
RECURSIVE CreateFrom(_, _, _, _)
CreateFrom(st, k, i, lines) ==
    IF i > Len(DefaultEntries) THEN [ok |-> TRUE, st |-> st, lines |-> lines, msg |-> ""]
    ELSE
    LET e == DefaultEntries[i]
        emb == DEFAULT_TEMPLATES[IndexOf(DEFAULT_TEMPLATES, e.dir)]
        node == emb.tree[e.path]
    IN  IF node.kind = "dir"
        THEN LET st1 == IF Has(st, e.dir) THEN st ELSE InsertAt(st, k, NewDir(e.dir))
                 j == IndexOf(st1, e.dir)
                 r == create_dir_all(st1[j].tree, e.path)
                 ln == Append(lines, Line("Creating dir", <<e.dir>> \o e.path))
             IN  IF r.ok
                 THEN CreateFrom([st1 EXCEPT ![j].tree = r.fs], k, i + 1, ln)
                 ELSE [ok |-> FALSE, st |-> st1, lines |-> ln,
                       msg |-> "Failed to create directory"]
        ELSE LET ln == Append(lines, Line("Writing file", <<e.dir>> \o e.path))
                 bad == [ok |-> FALSE, st |-> st, lines |-> ln, msg |-> "Failed to write file"]
             IN  IF ~Has(st, e.dir) THEN bad
                 ELSE LET j == IndexOf(st, e.dir)
                          tr == st[j].tree
                          w == write(tr, e.path, node)
                      IN  IF \/ Parent(e.path) \notin DOMAIN tr
                             \/ tr[Parent(e.path)].kind # "dir"
                             \/ ~w.ok
                          THEN bad
                          ELSE CreateFrom(
                                 [st EXCEPT ![j].tree = w.fs,
                                            ![j].meta = IF e.path = <<MetaToml>> THEN emb.meta ELSE @,
                                            ![j].tpl = IF e.path = <<MetaToml>> THEN emb.tpl ELSE @],
                                 k, i + 1, ln)

create_defaults(st, k) == CreateFrom(st, k, 1, <<>>)

----------------------------------------------------------------------------
(* The files Create writes *)

\* the text before and after {name} in the .meta.toml that Create writes
CreateMetaPre ==
    <<"\n","[","t","e","m","p","l","a","t","e","]","\n","n","a","m","e"," ","="," ",
      "\"">>

CreateMetaPost ==
    <<"\"","\n","d","e","s","c","r","i","p","t","i","o","n"," ","="," ","\"","N","e",
      "w"," ","t","e","m","p","l","a","t","e","\"","\n","a","l","i","a","s"," ","=",
      " ","[","]"," "," "," "," "," "," ","#"," ","A","l","i","a","s","'"," ","f","o",
      "r"," ","i","n","i","t","x","\n","c","o","m","m","a","n","d","s"," ","="," ",
      "[","]"," "," "," ","#"," ","C","o","m","m","a","n","d","s"," ","t","o"," ","r",
      "u","n"," ","a","f","t","e","r"," ","c","o","p","y","i","n","g"," ","f","i","l",
      "e","s"," ","(","p","r","o","b","a","b","l","y"," ","d","o"," ","g","i","t",")",
      "\n","i","g","n","o","r","e"," ","="," ","[","]"," "," "," "," "," ","#"," ",
      "F","i","l","e","s"," ","t","o"," ","a","d","d"," ","t","o"," ",".","g","i","t",
      "i","g","n","o","r","e"," ","(","w","i","l","l"," ","c","r","e","a","t","e"," ",
      "i","f"," ","n","e","e","d","e","d",")","\n">>

\* the .envrc that Create writes
CreateEnvrc ==
    <<"\n","e","x","p","o","r","t"," ","D","I","R","E","N","V","_","W","A","R","N",
      "_","T","I","M","E","O","U","T","=","2","0","s","\n","e","v","a","l"," ","\"",
      "$","(","d","e","v","e","n","v"," ","d","i","r","e","n","v","r","c",")","\"",
      "\n","u","s","e"," ","d","e","v","e","n","v","\n">>

\* the text before and after {name} in the devenv.nix that Create writes
CreateNixPre ==
    <<"\n","{","\n","p","k","g","s",",","\n","l","i","b",",","\n","c","o","n","f","i",
      "g",",","\n","i","n","p","u","t","s",",","\n",".",".",".","\n","}",":","\n",
      "\n","{","\n","e","n","v",".","G","R","E","E","T"," ","="," ","\"">>

CreateNixPost ==
    <<"\"",";","\n","p","a","c","k","a","g","e","s"," ","="," ","[","\n","p","k","g",
      "s",".","g","i","t","\n","]",";","\n","\n","e","n","t","e","r","S","h","e","l",
      "l"," ","="," ","'","'","\n","g","i","t"," ","-","-","v","e","r","s","i","o",
      "n","\n","'","'",";","\n","\n","}","\n">>

\* the subdirectory Create makes for `name`: the three files of the BTreeMap,
\* each with its lines trimmed at the start; the .meta.toml is a full
\* template table as long as `name` needs no escaping in TOML
CreatedDir(name) ==
    [dir |-> to_lowercase(name), meta |-> "valid",
     tpl |-> Template(name, "New template", <<>>, <<>>, <<>>, <<>>),
     tree |-> (<<>> :> DirNode)
              @@ (<<Envrc>> :> TextFile(CreateEnvrc))
              @@ (<<MetaToml>> :> TextFile(CreateMetaPre \o name \o CreateMetaPost))
              @@ (<<DevenvNix>> :> TextFile(CreateNixPre \o name \o CreateNixPost))]

----------------------------------------------------------------------------
(* main *)

SubstIdle == s = <<>> /\ svars = <<>> /\ out = <<>> /\ spc = "idle"

\* nothing of main has run yet
MainFresh ==
    /\ lock = "unforced" /\ TEMPLATES = <<>> /\ t = <<>> /\ template = 0 /\ vars = <<>>
    /\ dest = dest0 /\ fsOps = <<>> /\ visited = {} /\ last = <<>> /\ cmdIdx = 0
    /\ children = {} /\ started = <<>> /\ exits = <<>> /\ printed = <<>>
    /\ outcome = [kind |-> "running", msg |-> ""]

\* Args::parse(): the install arm with all its inputs; the other arms with
\* the inputs they read
Init ==
    /\ SubstIdle
    /\ pc = "main"
    /\ storeExists \in BOOLEAN
    /\ storage \in (IF storeExists THEN Storages ELSE {<<>>})
    /\ \/ /\ command = "none"
          /\ query \in {Some(q) : q \in Queries}
          /\ force \in BOOLEAN
          /\ argName \in {None, Some(<<"W","o","r","l","d">>)}
          /\ dest0 \in DestPool
       \/ /\ command = "none"
          /\ query = None
          /\ force = FALSE /\ argName = None /\ dest0 = <<>>
       \/ /\ command \in {"list", "defaults"}
          /\ query \in {None, Some(<<"r","s">>)}
          /\ force = FALSE /\ argName = None /\ dest0 = <<>>
       \/ /\ command = "create"
          /\ query = None
          /\ force \in BOOLEAN
          /\ argName = None /\ dest0 = <<>>
    /\ MainFresh

Exit(kind, msg) ==
    /\ pc' = "exit"
    /\ outcome' = [kind |-> kind, msg |-> msg]

\* match (args.command, args.template)
MatchArgs ==
    /\ pc = "main"
    /\ IF command = "none" /\ query = None
       THEN Exit("bail", "You need to give me something to do")
       ELSE IF command # "none" /\ query # None
       THEN Exit("bail", "Can't install a template and run a command simultaneously")
       ELSE /\ pc' = (IF command = "none" THEN "load" ELSE command)
            /\ UNCHANGED outcome
    /\ UNCHANGED <<command, query, force, argName, storeExists, storage, lock,
                   TEMPLATES, t, template, vars, dest0, dest, fsOps, visited, last,
                   cmdIdx, children, started, exits, printed>>
    /\ UNCHANGED substVars

\* the first use of TEMPLATES forces the LazyLock: the template directory is
\* made and filled with the defaults when it is not there, then read
LoadTemplates ==
    /\ pc = "load"
    /\ LET d == IF storeExists
                THEN [ok |-> TRUE, st |-> storage, lines |-> <<>>, msg |-> ""]
                ELSE create_defaults(storage, 1)
           r == Collect(d.st, 1, <<>>)
       IN  /\ storeExists' = TRUE
           /\ storage' = d.st
           /\ printed' = printed \o d.lines
           /\ IF ~d.ok
              THEN /\ Exit("bail", d.msg)
                   /\ UNCHANGED <<lock, TEMPLATES>>
              ELSE IF r.panic
              THEN /\ Exit("panic", "metadata")
                   /\ lock' = "poisoned"
                   /\ UNCHANGED TEMPLATES
              ELSE /\ pc' = IF command = "list" THEN "list_lines" ELSE "find"
                   /\ lock' = "forced"
                   /\ TEMPLATES' = r.list
                   /\ UNCHANGED outcome
    /\ UNCHANGED <<command, query, force, argName, t, template, vars, dest0, dest,
                   fsOps, visited, last, cmdIdx, children, started, exits>>
    /\ UNCHANGED substVars

\* let t = t.to_lowercase(); TEMPLATES.iter().find(..)
FindTemplate ==
    /\ pc = "find"
    /\ t' = to_lowercase(query[1])
    /\ template' = find(TEMPLATES, t')
    /\ pc' = "dirty"
    /\ UNCHANGED <<command, query, force, argName, storeExists, storage, lock,
                   TEMPLATES, vars, dest0, dest, fsOps, visited, last, cmdIdx,
                   children, started, exits, printed, outcome>>
    /\ UNCHANGED substVars

\* the check of the current directory
CheckDirty ==
    /\ pc = "dirty"
    /\ IF IsDirty(force, dest)
       THEN Exit("bail", "Current directory is dirty :(")
       ELSE pc' = "vars" /\ UNCHANGED outcome
    /\ UNCHANGED <<command, query, force, argName, storeExists, storage, lock,
                   TEMPLATES, t, template, vars, dest0, dest, fsOps, visited, last,
                   cmdIdx, children, started, exits, printed>>
    /\ UNCHANGED substVars

\* vars.insert("location", ..); vars.insert("name", ..): the name is -n, or
\* asked for at the prompt, which needs a terminal and panics without one
BuildVars ==
    /\ pc = "vars"
    /\ \/ /\ argName # None
          /\ vars' = (KeyLocation :> Cwd) @@ (KeyName :> argName[1])
          /\ pc' = "select"
          /\ UNCHANGED outcome
       \/ /\ argName = None
          /\ \E answer \in PromptAnswers :
                vars' = (KeyLocation :> Cwd) @@ (KeyName :> answer)
          /\ pc' = "select"
          /\ UNCHANGED outcome
       \/ /\ argName = None
          /\ vars' = (KeyLocation :> Cwd)
          /\ Exit("panic", "prompt")
    /\ UNCHANGED <<command, query, force, argName, storeExists, storage, lock,
                   TEMPLATES, t, template, dest0, dest, fsOps, visited, last, cmdIdx,
                   children, started, exits, printed>>
    /\ UNCHANGED substVars

\* if let Some(template) = template { .. } else { bail(..) }
SelectTemplate ==
    /\ pc = "select"
    /\ IF template = 0
       THEN Exit("bail", "No template found")
       ELSE pc' = "walk" /\ UNCHANGED outcome
    /\ UNCHANGED <<command, query, force, argName, storeExists, storage, lock,
                   TEMPLATES, t, template, vars, dest0, dest, fsOps, visited, last,
                   cmdIdx, children, started, exits, printed>>
    /\ UNCHANGED substVars

\* one entry of the walk: filtered out, or handed to the closure of for_each
WalkEntry ==
    /\ pc = "walk"
    /\ LET path == TEMPLATES[template].path
           tree == TreeAt(path)
       IN  /\ ~WalkDone(tree, visited)
           /\ \E e \in NextEntries(tree, visited, last) :
                /\ visited' = visited \cup {e}
                /\ last' = e
                /\ IF Kept(path, e)
                   THEN LET r == Materialize(dest, tree, e, vars)
                        IN  /\ dest' = r.fs
                            /\ fsOps' = fsOps \o r.ops
                            /\ IF r.ok
                               THEN UNCHANGED <<pc, outcome>>
                               ELSE Exit("bail", r.msg)
                   ELSE UNCHANGED <<dest, fsOps, pc, outcome>>
    /\ UNCHANGED <<command, query, force, argName, storeExists, storage, lock,
                   TEMPLATES, t, template, vars, dest0, cmdIdx, children, started,
                   exits, printed>>
    /\ UNCHANGED substVars

\* the walk is over: enter `for cmd in &template.commands`
StartCommands ==
    /\ pc = "walk"
    /\ WalkDone(TreeAt(TEMPLATES[template].path), visited)
    /\ cmdIdx' = 1
    /\ pc' = "spawn"
    /\ UNCHANGED <<command, query, force, argName, storeExists, storage, lock,
                   TEMPLATES, t, template, vars, dest0, dest, fsOps, visited, last,
                   children, started, exits, printed, outcome>>
    /\ UNCHANGED substVars

\* what a child process may do while main waits for it: the program it runs
\* decides, so this is the environment's choice; `adds` are entries it makes
\* in the current directory, `removes` names of entries it deletes there,
\* `lines` what it writes to the stdout it inherits
DotGit == <<".","g","i","t">>
GitHead == <<"H","E","A","D">>
Quiet == [adds |-> <<>>, removes |-> {}, lines |-> <<>>]
GitInit ==
    [adds |-> (<<DotGit>> :> DirNode)
              @@ (<<DotGit, GitHead>> :> TextFile(<<"r","e","f",":">>)),
     removes |-> {},
     lines |-> <<Line("Initialized empty Git repository", <<DotGit>>)>>]
Echo(argv) == [adds |-> <<>>, removes |-> {}, lines |-> <<Line("echo", Tail(argv))>>]
Remove == [adds |-> <<>>, removes |-> {Greeting}, lines |-> <<>>]
ChildEffects(argv) == {Quiet, GitInit, Echo(argv), Remove}

\* the current directory after a child with effect eff
ApplyEffect(d, eff) ==
    LET keep == {p \in DOMAIN d : p[1] \notin eff.removes}
    IN  [p \in keep \cup DOMAIN eff.adds |->
            IF p \in DOMAIN eff.adds THEN eff.adds[p] ELSE d[p]]

\* Command::new(..).args(..).current_dir(..).spawn().unwrap(): whether the
\* program can be started is the environment's choice, except that an empty
\* program name never can
SpawnCommand ==
    /\ pc = "spawn"
    /\ cmdIdx <= Len(TEMPLATES[template].commands)
    /\ LET argv == split(apply_template(TEMPLATES[template].commands[cmdIdx], vars))
       IN  \E found \in BOOLEAN :
              IF found /\ argv[1] # <<>>
              THEN /\ children' = children \cup {cmdIdx}
                   /\ started' = Append(started, [cmd |-> cmdIdx, argv |-> argv,
                                                  dir |-> Cwd, effect |-> Quiet])
                   /\ pc' = "wait"
                   /\ UNCHANGED outcome
              ELSE /\ Exit("panic", "spawn")
                   /\ UNCHANGED <<children, started>>
    /\ UNCHANGED <<command, query, force, argName, storeExists, storage, lock,
                   TEMPLATES, t, template, vars, dest0, dest, fsOps, visited, last,
                   cmdIdx, exits, printed>>
    /\ UNCHANGED substVars

\* the child runs to its end in the current directory while main is blocked
\* in wait(): it may change the directory and write to stdout
ChildRuns ==
    /\ pc = "wait"
    /\ \E eff \in ChildEffects(started[cmdIdx].argv) :
          /\ dest' = ApplyEffect(dest, eff)
          /\ printed' = printed \o eff.lines
          /\ started' = [started EXCEPT ![cmdIdx].effect = eff]
    /\ pc' = "reap"
    /\ UNCHANGED <<command, query, force, argName, storeExists, storage, lock,
                   TEMPLATES, t, template, vars, dest0, fsOps, visited, last,
                   cmdIdx, children, exits, outcome>>
    /\ UNCHANGED substVars

ExitCodes == {0, 1}

\* .wait().unwrap() once the child has ended: Ok with the status, which is
\* dropped, or Err (ECHILD when the process ignores SIGCHLD), which panics
WaitCommand ==
    /\ pc = "reap"
    /\ children' = children \ {cmdIdx}
    /\ \/ /\ \E code \in ExitCodes : exits' = Append(exits, code)
          /\ cmdIdx' = cmdIdx + 1
          /\ pc' = "spawn"
          /\ UNCHANGED outcome
       \/ /\ Exit("panic", "wait")
          /\ UNCHANGED <<exits, cmdIdx>>
    /\ UNCHANGED <<command, query, force, argName, storeExists, storage, lock,
                   TEMPLATES, t, template, vars, dest0, dest, fsOps, visited, last,
                   started, printed>>
    /\ UNCHANGED substVars

\* the loop over the commands is over and main returns
Finish ==
    /\ pc = "spawn"
    /\ cmdIdx > Len(TEMPLATES[template].commands)
    /\ Exit("ok", "")
    /\ UNCHANGED <<command, query, force, argName, storeExists, storage, lock,
                   TEMPLATES, t, template, vars, dest0, dest, fsOps, visited, last,
                   cmdIdx, children, started, exits, printed>>
    /\ UNCHANGED substVars

\* (Some(Command::List), None): the header line, printed before TEMPLATES is
\* first used
ListHeader ==
    /\ pc = "list"
    /\ printed' = Append(printed, Line("Template List", <<>>))
    /\ pc' = "load"
    /\ UNCHANGED <<command, query, force, argName, storeExists, storage, lock,
                   TEMPLATES, t, template, vars, dest0, dest, fsOps, visited, last,
                   cmdIdx, children, started, exits, outcome>>
    /\ UNCHANGED substVars

\* for template in TEMPLATES.iter(): one line per template
ListTemplates ==
    /\ pc = "list_lines"
    /\ printed' = printed \o
                    [i \in DOMAIN TEMPLATES |->
                        Line("-", [name |-> TEMPLATES[i].name, alias |-> TEMPLATES[i].alias])]
    /\ Exit("ok", "")
    /\ UNCHANGED <<command, query, force, argName, storeExists, storage, lock,
                   TEMPLATES, t, template, vars, dest0, dest, fsOps, visited, last,
                   cmdIdx, children, started, exits>>
    /\ UNCHANGED substVars

\* (Some(Command::Defaults), None): create_defaults(), then one line
Defaults ==
    /\ pc = "defaults"
    /\ \E k \in 1..(Len(storage) + 1) :
          LET d == create_defaults(storage, k)
          IN  /\ storage' = d.st
              /\ storeExists' = TRUE
              /\ IF d.ok
                 THEN /\ printed' = printed \o Append(d.lines, Line("Templates Created", <<>>))
                      /\ Exit("ok", "")
                 ELSE /\ printed' = printed \o d.lines
                      /\ Exit("bail", d.msg)
    /\ UNCHANGED <<command, query, force, argName, lock, TEMPLATES, t, template, vars,
                   dest0, dest, fsOps, visited, last, cmdIdx, children, started, exits>>
    /\ UNCHANGED substVars

\* (Some(Command::Create), None): ask for the name, remove the subdirectory
\* under -f, refuse one that exists, make it and write its three files
Create ==
    /\ pc = "create"
    /\ \/ /\ Exit("panic", "prompt")
          /\ UNCHANGED <<storage, storeExists, printed>>
       \/ \E name \in PromptAnswers :
             LET dir == to_lowercase(name)
                 st == IF force THEN RemoveDir(storage, dir) ELSE storage
             IN  IF Has(st, dir)
                 THEN /\ Exit("bail", "already exists, or is inaccessible")
                      /\ UNCHANGED <<storage, storeExists, printed>>
                 ELSE \E k \in 1..(Len(st) + 1) :
                         /\ storage' = InsertAt(st, k, CreatedDir(name))
                         /\ storeExists' = TRUE
                         /\ printed' = Append(printed, Line("Template Created", name))
                         /\ Exit("ok", "")
    /\ UNCHANGED <<command, query, force, argName, lock, TEMPLATES, t, template, vars,
                   dest0, dest, fsOps, visited, last, cmdIdx, children, started, exits>>
    /\ UNCHANGED substVars

Next ==
    \/ MatchArgs
    \/ LoadTemplates
    \/ FindTemplate
    \/ CheckDirty
    \/ BuildVars
    \/ SelectTemplate
    \/ WalkEntry
    \/ StartCommands
    \/ SpawnCommand
    \/ ChildRuns
    \/ WaitCommand
    \/ Finish
    \/ ListHeader
    \/ ListTemplates
    \/ Defaults
    \/ Create

Spec == Init /\ [][Next]_allVars

----------------------------------------------------------------------------
(* Inputs of apply_template called on its own *)

\* `$`, ASCII letters, underscore, a space, and a letter outside ASCII
Alphabet == {"$", "a", "b", "_", " ", "U+00E9"}
Texts == BoundedSeq(Alphabet, MaxLen)

\* variable names are non-empty runs of name characters (spec section 3)
KeyPool == {<<"a">>, <<"a","b">>}
ValPool == {<<"X">>, <<"$","a","b">>, <<>>}
VarMaps == UNION {[K -> ValPool] : K \in SUBSET KeyPool}

\* main is not running
MainIdle ==
    /\ pc = "idle" /\ command = "none" /\ query = <<>> /\ force = FALSE
    /\ argName = <<>> /\ storeExists = TRUE /\ storage = <<>> /\ dest0 = <<>>
    /\ MainFresh

InitSubst ==
    /\ s \in Texts
    /\ svars \in VarMaps
    /\ out = <<>>
    /\ spc = "call"
    /\ MainIdle

\* one call of apply_template(s, &svars)
Substitute ==
    /\ spc = "call"
    /\ out' = apply_template(s, svars)
    /\ spc' = "returned"
    /\ UNCHANGED <<s, svars>>
    /\ UNCHANGED mainVars

NextSubst == Substitute

SpecSubst == InitSubst /\ [][NextSubst]_allVars

----------------------------------------------------------------------------
(* Claims about apply_template, checked under SpecSubst *)

\* the name read after the `$` at position i of str
NameAfter(str, i) == SubSeq(str, i + 1, RunEnd(str, i + 1) - 1)

\* C1: for every key n of the mapping, apply_template("$" + n) returns the
\* mapped value exactly as stored: a value that itself holds "$ab", with ab
\* another key, comes out as "$ab", not as the value of ab.
C1_KnownVariableEmittedRaw ==
    spc = "returned" =>
        \A n \in DOMAIN svars : s = <<"$">> \o n => out = svars[n]

C1_Witness ==
    /\ spc = "returned"
    /\ s = <<"$", "a">>
    /\ DOMAIN svars = {<<"a">>, <<"a","b">>}
    /\ svars[<<"a">>] = <<"$","a","b">>
    /\ svars[<<"a","b">>] = <<"X">>
    /\ out = <<"$","a","b">>

\* C2: a `$` whose name is empty or is no key stays in the output together
\* with the name, and the scan goes on at the character right after the name:
\* a text in which no `$` is followed by a key is returned unchanged (so is a
\* text without `$`, "$" alone, and "$" + n for an unknown n); a `$` followed by
\* a character that cannot be part of a name gives "$" followed by the
\* substitution of the rest; "$$" + n for a key n gives "$" + value of n.
C2_UnknownOrEmptyNameKept ==
    spc = "returned" =>
        /\ (\A i \in DOMAIN s : s[i] = "$" => NameAfter(s, i) \notin DOMAIN svars)
              => out = s
        /\ (s # <<>> /\ s[1] = "$" /\ (Len(s) = 1 \/ ~IsNameChar(s[2])))
              => out = <<"$">> \o apply_template(Tail(s), svars)
        /\ \A n \in DOMAIN svars : s = <<"$", "$">> \o n => out = <<"$">> \o svars[n]

C2_Witness ==
    /\ spc = "returned"
    /\ s = <<"$", "$", "a">>
    /\ DOMAIN svars = {<<"a">>}
    /\ svars[<<"a">>] = <<"X">>
    /\ out = <<"$", "X">>

\* C3: the name after a `$` is made of ASCII letters, ASCII digits and
\* underscore only, so a letter outside ASCII ends it: for a key n and such a
\* letter c, apply_template("$" + n + c) returns the value of n followed by c.
C3_NonAsciiLetterEndsName ==
    spc = "returned" =>
        \A n \in DOMAIN svars : \A c \in UnicodeLetter :
            s = (<<"$">> \o n) \o <<c>> => out = svars[n] \o <<c>>


----------------------------------------------------------------------------
(* Claims about main, checked under Spec *)

\* the load has run and did not panic
Loaded == lock = "forced"
\* the lookup has run
Looked == command = "none" /\ Loaded /\ pc # "find"

\* C4: the lookup finds a template whenever the query equals, up to letter
\* case, the name or one of the aliases of a loaded template, also when that
\* alias holds upper-case letters.
C4_LookupIgnoresCase ==
    Looked =>
        \A j \in DOMAIN TEMPLATES :
            (\/ to_lowercase(TEMPLATES[j].name) = to_lowercase(query[1])
             \/ \E k \in DOMAIN TEMPLATES[j].alias :
                   to_lowercase(TEMPLATES[j].alias[k]) = to_lowercase(query[1]))
            => /\ template # 0
               /\ \/ to_lowercase(TEMPLATES[template].name) = to_lowercase(query[1])
                  \/ \E k \in DOMAIN TEMPLATES[template].alias :
                        to_lowercase(TEMPLATES[template].alias[k]) = to_lowercase(query[1])

\* the names a command has removed from the current directory
RemovedByChildren == UNION {started[k].effect.removes : k \in DOMAIN started}

\* C5: once a command has exited with a status other than zero, no later
\* command is started and the run does not end in success, while every file
\* the walk wrote is still in the destination unless a command removed it.
C5_FailedCommandAborts ==
    \A i \in DOMAIN exits :
        exits[i] # 0 =>
            /\ Len(started) = i
            /\ pc = "exit" => outcome.kind # "ok"
            /\ \A k \in DOMAIN fsOps :
                  fsOps[k].op \in {"write", "copy"} =>
                     \/ fsOps[k].path \in DOMAIN dest
                     \/ fsOps[k].path[1] \in RemovedByChildren

\* C6: with an entry in the destination and no force flag, the destination
\* never changes, no call writes to it and no command is spawned; once past
\* the check the program has ended with the dirty-directory failure, whether
\* or not the lookup found a template.
C6_DirtyDestinationUntouched ==
    (command = "none" /\ query # None /\ ~force /\ DOMAIN dest0 # {}) =>
        /\ dest = dest0
        /\ fsOps = <<>>
        /\ started = <<>> /\ children = {}
        /\ (Loaded /\ pc \notin {"find", "dirty"}) =>
              /\ pc = "exit"
              /\ outcome = [kind |-> "bail", msg |-> "Current directory is dirty :("]

C6_Witness ==
    /\ ~force /\ DOMAIN dest0 # {}
    /\ pc = "exit"
    /\ outcome.msg = "Current directory is dirty :("
    /\ template # 0
    /\ TEMPLATES[template].path = DirRust.dir
    /\ dest = dest0

\* C7: a subdirectory whose metadata is missing, is no TOML, has no template
\* table or has a template table that lacks a field is skipped without error,
\* and every sibling with valid metadata is in the loaded list.
C7_BadMetadataSkipped ==
    lock # "unforced" =>
        /\ lock = "forced"
        /\ outcome.msg # "metadata"
        /\ \A i \in DOMAIN storage :
              storage[i].meta = "valid"
                 <=> \E j \in DOMAIN TEMPLATES : TEMPLATES[j].path = storage[i].dir

\* the tree of the template found
FoundTree == TreeAt(TEMPLATES[template].path)

\* C8: a command is started only after the walk has yielded every entry and
\* every entry it keeps is in the destination (where it stays unless a command
\* removes it); commands are started in the order declared, each with the
\* substituted, space-split command line, and command i+1 only after wait()
\* has returned the exit of command i, so at most one child runs.
C8_CommandsAfterWalkInOrder ==
    /\ (started # <<>> \/ children # {}) =>
          /\ template # 0
          /\ visited = Yieldable(FoundTree)
          /\ \A e \in Yieldable(FoundTree) :
                (e # <<>> /\ Kept(TEMPLATES[template].path, e)) =>
                    e \in DOMAIN dest \/ e[1] \in RemovedByChildren
    /\ \A k \in DOMAIN started :
          /\ started[k].cmd = k
          /\ started[k].argv = split(apply_template(TEMPLATES[template].commands[k], vars))
    /\ Cardinality(children) <= 1
    /\ Len(exits) <= Len(started) /\ Len(started) <= Len(exits) + 1
    /\ children = (IF Len(started) > Len(exits) /\ outcome.msg # "wait"
                   THEN {Len(started)} ELSE {})

C8_Witness ==
    /\ children = {2}
    /\ Len(started) = 2 /\ Len(exits) = 1
    /\ started[2].argv = << <<"e","c","h","o">>, <<"W","o","r","l","d">> >>
    /\ started[1].effect = GitInit
    /\ <<DotGit, GitHead>> \in DOMAIN dest
    /\ <<Greeting>> \in DOMAIN dest
    /\ dest[<<Greeting>>].data = <<"H","e","l","l","o",","," ","W","o","r","l","d","!">>

\* C9: applied to an empty destination, the program leaves no file or
\* directory there whose name starts with ".meta".
C9_NoMetadataInDestination ==
    dest0 = <<>> =>
        \A p \in DOMAIN dest : \A k \in DOMAIN p : ~starts_with(p[k], MetaPrefix)

\* position of a template's subdirectory in read order
ReadIndex(path) == CHOOSE i \in DOMAIN storage : storage[i].dir = path

\* C10 as stated: no two loaded templates have the same name, and a lookup by
\* a name that two subdirectories declare returns the one read last.
C10_NamesUniqueLastReadWins ==
    Loaded =>
        /\ \A j, k \in DOMAIN TEMPLATES : j # k => TEMPLATES[j].name # TEMPLATES[k].name
        /\ Looked =>
              \A j \in DOMAIN TEMPLATES :
                  to_lowercase(TEMPLATES[j].name) = t => template >= j

\* C10 as amended: the loaded list holds one entry for every subdirectory with
\* valid metadata, in read order, so subdirectories that declare the same name
\* are all kept; the lookup returns the first entry in read order whose
\* lowercased name or whose alias equals the lowercased query, so of the
\* templates that declare one name the one read first is returned.
C10_DuplicatesKeptFirstReadFound ==
    Loaded =>
        /\ Len(TEMPLATES) = Cardinality({i \in DOMAIN storage : storage[i].meta = "valid"})
        /\ \A j \in DOMAIN TEMPLATES :
              \E i \in DOMAIN storage :
                 /\ storage[i].meta = "valid"
                 /\ storage[i].dir = TEMPLATES[j].path
                 /\ storage[i].tpl.name = TEMPLATES[j].name
        /\ \A j, k \in DOMAIN TEMPLATES :
              j < k => ReadIndex(TEMPLATES[j].path) < ReadIndex(TEMPLATES[k].path)
        /\ Looked =>
              /\ \A j \in DOMAIN TEMPLATES :
                    (to_lowercase(TEMPLATES[j].name) = t
                       \/ \E k \in DOMAIN TEMPLATES[j].alias : TEMPLATES[j].alias[k] = t)
                    => template # 0 /\ template <= j
              /\ template # 0 =>
                    \/ to_lowercase(TEMPLATES[template].name) = t
                    \/ \E k \in DOMAIN TEMPLATES[template].alias :
                          TEMPLATES[template].alias[k] = t

C10_Witness ==
    /\ Looked
    /\ Len(TEMPLATES) = 2
    /\ TEMPLATES[1].name = TEMPLATES[2].name
    /\ TEMPLATES[1].path = DirRust2.dir
    /\ query = Some(<<"R","U","S","T">>)
    /\ template = 1

====
